---- MODULE Spec2Model ----
(***************************************************************************)
(* Model of src/src/optimizers.py: the Optimizer base class, return_lr and *)
(* the seven update rules (SGD, MomentumSGD, NesterovMomentumSGD, AdaGrad, *)
(* RMSProp, Adam, AdaBelief).                                              *)
(*                                                                         *)
(* Numbers.  A Python/JAX float is modelled as an exact rational extended  *)
(* with the IEEE-754 special values +inf, -inf and NaN, so that division   *)
(* by zero, 0 * inf and inf - inf behave as they do in the program.  The   *)
(* rounding of finite results is not modelled (finite arithmetic is exact) *)
(* with one exception: sqrt is rounded down to a multiple of 1/SqrtDen.    *)
(* The sign of zero is not modelled (every zero is +0).                    *)
(*                                                                         *)
(* Tensors.  A jnp.ndarray is a tuple of numbers; a Python scalar is a     *)
(* tuple of length one and broadcasts against any tensor.  The absent      *)
(* gradient (None) is the empty tuple.                                     *)
(*                                                                         *)
(* Driver.  One instance of each variant is constructed from the same      *)
(* keyword arguments and every call feeds the same arguments to each of    *)
(* them, so that variants can be compared call by call.                    *)
(***************************************************************************)
EXTENDS Integers, Sequences, FiniteSets, TLC

\* Bound: number of update/__call__ calls made on each instance.
MaxCalls == 3

\* Bound: sqrt results are rounded down to a multiple of 1/SqrtDen.
SqrtDen == 4

(***************************************************************************)
(* Extended rational arithmetic                                            *)
(***************************************************************************)
IAbs(i) == IF i < 0 THEN -i ELSE i

RECURSIVE GCD(_, _)
GCD(a, b) == IF b = 0 THEN a ELSE GCD(b, a % b)

\* the rational n/d (d # 0) in lowest terms with a positive denominator
Q(n, d) ==
  LET s == IF d < 0 THEN -1 ELSE 1
      g == GCD(IAbs(n), IAbs(d))
  IN  [k |-> "fin", n |-> (s * n) \div g, d |-> (s * d) \div g]

PosInf == [k |-> "inf", n |-> 1, d |-> 0]

NegInf == [k |-> "inf", n |-> -1, d |-> 0]

NaN == [k |-> "nan", n |-> 0, d |-> 0]

Zero == Q(0, 1)

One == Q(1, 1)

IsFin(x) == x.k = "fin"

IsNaN(x) == x.k = "nan"

\* -1, 0 or 1 (0 for NaN)
Sgn(x) == IF x.n < 0 THEN -1 ELSE IF x.n > 0 THEN 1 ELSE 0

SignedInf(s) == IF s < 0 THEN NegInf ELSE PosInf

fNeg(x) == [x EXCEPT !.n = -x.n]

fAdd(x, y) ==
  IF IsNaN(x) \/ IsNaN(y) THEN NaN
  ELSE IF ~IsFin(x) /\ ~IsFin(y) THEN (IF x.n = y.n THEN x ELSE NaN)
  ELSE IF ~IsFin(x) THEN x
  ELSE IF ~IsFin(y) THEN y
  ELSE LET g == GCD(x.d, y.d)   \* over the least common denominator
       IN  Q(x.n * (y.d \div g) + y.n * (x.d \div g), (x.d \div g) * y.d)

fSub(x, y) == fAdd(x, fNeg(y))

fMul(x, y) ==
  IF IsNaN(x) \/ IsNaN(y) THEN NaN
  ELSE IF ~IsFin(x) \/ ~IsFin(y)
       THEN (IF Sgn(x) = 0 \/ Sgn(y) = 0 THEN NaN ELSE SignedInf(Sgn(x) * Sgn(y)))
  ELSE LET g1 == GCD(IAbs(x.n), y.d)   \* cancel before multiplying
           g2 == GCD(IAbs(y.n), x.d)
       IN  Q((x.n \div g1) * (y.n \div g2), (x.d \div g2) * (y.d \div g1))

fDiv(x, y) ==
  IF IsNaN(x) \/ IsNaN(y) THEN NaN
  ELSE IF ~IsFin(x) /\ ~IsFin(y) THEN NaN
  ELSE IF ~IsFin(x) THEN SignedInf(Sgn(x) * (IF Sgn(y) < 0 THEN -1 ELSE 1))
  ELSE IF ~IsFin(y) THEN Zero
  ELSE IF y.n = 0 THEN (IF x.n = 0 THEN NaN ELSE SignedInf(Sgn(x)))
  ELSE fMul(x, Q(y.d, y.n))

\* largest r in lo..hi with r * r <= m (lo * lo <= m assumed)
RECURSIVE ISqrtIn(_, _, _)
ISqrtIn(m, lo, hi) ==
  IF lo >= hi THEN lo
  ELSE LET mid == (lo + hi + 1) \div 2
       IN  IF mid * mid <= m THEN ISqrtIn(m, mid, hi) ELSE ISqrtIn(m, lo, mid - 1)

ISqrt(m) == ISqrtIn(m, 0, IF m < 46340 THEN m ELSE 46340)

fSqrt(x) ==
  IF IsNaN(x) THEN NaN
  ELSE IF ~IsFin(x) THEN (IF x.n > 0 THEN PosInf ELSE NaN)
  ELSE IF x.n < 0 THEN NaN
  ELSE Q(ISqrt((x.n * SqrtDen * SqrtDen) \div x.d), SqrtDen)

fAbs(x) == [x EXCEPT !.n = IAbs(x.n)]

\* IEEE comparison x <= y: false as soon as one side is NaN
fLeq(x, y) ==
  IF IsNaN(x) \/ IsNaN(y) THEN FALSE
  ELSE IF x = y THEN TRUE
  ELSE IF ~IsFin(x) THEN x.n < 0
  ELSE IF ~IsFin(y) THEN y.n > 0
  ELSE LET g == GCD(x.d, y.d)
       IN  x.n * (y.d \div g) <= y.n * (x.d \div g)

(***************************************************************************)
(* Tensors with broadcasting                                               *)
(***************************************************************************)
None == << >>

Scalar(x) == << x >>

Lift1(Op(_), a) == [i \in 1..Len(a) |-> Op(a[i])]

Lift2(Op(_, _), a, b) ==
  LET n == IF Len(a) > Len(b) THEN Len(a) ELSE Len(b)
  IN  [i \in 1..n |-> Op(IF Len(a) = 1 THEN a[1] ELSE a[i],
                         IF Len(b) = 1 THEN b[1] ELSE b[i])]

tNeg(a) == Lift1(fNeg, a)

tAdd(a, b) == Lift2(fAdd, a, b)

tSub(a, b) == Lift2(fSub, a, b)

tMul(a, b) == Lift2(fMul, a, b)

tDiv(a, b) == Lift2(fDiv, a, b)

tSqrt(a) == Lift1(fSqrt, a)

tAbs(a) == Lift1(fAbs, a)

\* a ** 2
tSquare(a) == tMul(a, a)

tIsFin(a) == \A i \in 1..Len(a) : IsFin(a[i])

tHasNaN(a) == \E i \in 1..Len(a) : IsNaN(a[i])

tLeq(a, b) == Len(a) = Len(b) /\ \A i \in 1..Len(a) : fLeq(a[i], b[i])

(***************************************************************************)
(* Learning rates: a Python float, or a callable schedule step -> float    *)
(***************************************************************************)
Fixed(x) == [callable |-> FALSE, scalar |-> x, fn |-> "none"]

Schedule(name) == [callable |-> TRUE, scalar |-> Zero, fn |-> name]

\* the schedules callers pass: "decay" is lr(step) = 0.1 / (step + 1),
\* "warmup" is lr(step) = 0.1 * (step + 1)
ScheduleValue(fn, step) ==
  IF fn = "decay" THEN Q(1, 10 * (step + 1)) ELSE Q(step + 1, 10)

\* Mutation of return_lr: a schedule is given the step after the increment.
return_lr_after_increment(lr, step) ==
  IF lr.callable
  THEN [value |-> Scalar(ScheduleValue(lr.fn, step + 1)),
        called_with |-> << step + 1 >>]
  ELSE [value |-> Scalar(lr.scalar), called_with |-> << >>]

\* the resolved learning rate, and the arguments the schedule was invoked with
return_lr(lr, step) ==
  IF lr.callable
  THEN [value |-> Scalar(ScheduleValue(lr.fn, step)), called_with |-> << step >>]
  ELSE [value |-> Scalar(lr.scalar), called_with |-> << >>]

(***************************************************************************)
(* Outcome of one method call: the instance after the call, whether the    *)
(* call raised, the returned value, the learning rate it resolved and the  *)
(* values of its local variables m_hat / v_hat (s_hat)                     *)
(***************************************************************************)
NoLocals == [m_hat |-> None, v_hat |-> None]

Returned(self, r, value, locals) ==
  [self |-> self, raised |-> FALSE, value |-> value, lr |-> r.value,
   called_with |-> r.called_with, locals |-> locals]

\* arithmetic on None raises TypeError: nothing is returned, and the
\* assignments that were already executed stay
Raised(self, r) ==
  [self |-> self, raised |-> TRUE, value |-> None, lr |-> r.value,
   called_with |-> r.called_with, locals |-> NoLocals]

(***************************************************************************)
(* class Optimizer                                                         *)
(***************************************************************************)
Optimizer_init == [step |-> 0]

\* Mutation of Optimizer_update: step is left as it is.
Optimizer_update_skip(self) == self

Optimizer_update(self) == [self EXCEPT !.step = @ + 1]

(***************************************************************************)
(* Each update method is written as a chain of operators, one per group of *)
(* statements, every intermediate value being passed on as an argument:    *)
(*   X_update  resolves lr from the step on entry, then increments step    *)
(*   X_...     the statements that follow, in program order                *)
(* r is the outcome of return_lr, s the instance as assigned so far.       *)
(***************************************************************************)

(***************************************************************************)
(* class SGD                                                               *)
(***************************************************************************)
SGD_init(learning_rate) ==
  [step |-> Optimizer_init.step, learning_rate |-> learning_rate]

\* return -lr * grads
SGD_return(s, r, grads) ==
  IF grads = None THEN Raised(s, r)
  ELSE Returned(s, r, tMul(tNeg(r.value), grads), NoLocals)

SGD_update(self, grads) ==
  SGD_return(Optimizer_update(self),
             return_lr(self.learning_rate, self.step), grads)

(***************************************************************************)
(* class MomentumSGD                                                       *)
(***************************************************************************)
MomentumSGD_init(learning_rate, momentum) ==
  [step |-> Optimizer_init.step, learning_rate |-> learning_rate,
   momentum |-> Scalar(momentum), velocity |-> Scalar(Zero)]

\* return self.velocity
MomentumSGD_return(s, r) == Returned(s, r, s.velocity, NoLocals)

\* Mutation of MomentumSGD_velocity: the old velocity is not scaled by momentum.
MomentumSGD_velocity_undamped(s, r, grads) ==
  IF grads = None THEN Raised(s, r)
  ELSE MomentumSGD_return(
         [s EXCEPT !.velocity = tSub(s.velocity, tMul(r.value, grads))], r)

\* self.velocity = self.momentum * self.velocity - lr * grads
MomentumSGD_velocity(s, r, grads) ==
  IF grads = None THEN Raised(s, r)
  ELSE MomentumSGD_return(
         [s EXCEPT !.velocity =
            tSub(tMul(s.momentum, s.velocity), tMul(r.value, grads))], r)

MomentumSGD_update(self, grads) ==
  MomentumSGD_velocity(Optimizer_update(self),
                       return_lr(self.learning_rate, self.step), grads)

(***************************************************************************)
(* class NesterovMomentumSGD                                               *)
(***************************************************************************)
NesterovMomentumSGD_init(learning_rate, momentum) ==
  [step |-> Optimizer_init.step, learning_rate |-> learning_rate,
   momentum |-> Scalar(momentum), velocity |-> Scalar(Zero)]

\* Mutation of NesterovMomentumSGD_return: the velocity itself is returned.
NesterovMomentumSGD_return_velocity(s, r, grads) ==
  Returned(s, r, s.velocity, NoLocals)

\* return self.momentum * self.velocity - (lr * grads)
NesterovMomentumSGD_return(s, r, grads) ==
  Returned(s, r, tSub(tMul(s.momentum, s.velocity), tMul(r.value, grads)),
           NoLocals)

\* self.velocity = self.momentum * self.velocity - lr * grads
NesterovMomentumSGD_velocity(s, r, grads) ==
  IF grads = None THEN Raised(s, r)
  ELSE NesterovMomentumSGD_return(
         [s EXCEPT !.velocity =
            tSub(tMul(s.momentum, s.velocity), tMul(r.value, grads))],
         r, grads)

NesterovMomentumSGD_update(self, grads) ==
  NesterovMomentumSGD_velocity(Optimizer_update(self),
                               return_lr(self.learning_rate, self.step), grads)

(***************************************************************************)
(* class AdaGrad                                                           *)
(***************************************************************************)
AdaGrad_init(learning_rate, epsilon) ==
  [step |-> Optimizer_init.step, learning_rate |-> learning_rate,
   epsilon |-> Scalar(epsilon), g_acc |-> Scalar(Zero)]

\* Mutation of AdaGrad_return: lr is multiplied by the normalizer, not divided.
AdaGrad_return_times(s, r, grads) ==
  Returned(s, r,
           tMul(tMul(tNeg(r.value), tAdd(s.epsilon, tSqrt(s.g_acc))), grads),
           NoLocals)

\* return -lr / (self.epsilon + jnp.sqrt(self.g_acc)) * grads
AdaGrad_return(s, r, grads) ==
  Returned(s, r,
           tMul(tDiv(tNeg(r.value), tAdd(s.epsilon, tSqrt(s.g_acc))), grads),
           NoLocals)

\* self.g_acc += grads ** 2
AdaGrad_g_acc(s, r, grads) ==
  IF grads = None THEN Raised(s, r)
  ELSE AdaGrad_return([s EXCEPT !.g_acc = tAdd(s.g_acc, tSquare(grads))],
                      r, grads)

AdaGrad_update(self, grads) ==
  AdaGrad_g_acc(Optimizer_update(self),
                return_lr(self.learning_rate, self.step), grads)

(***************************************************************************)
(* class RMSProp                                                           *)
(***************************************************************************)
RMSProp_init(learning_rate, epsilon, rho) ==
  [step |-> Optimizer_init.step, learning_rate |-> learning_rate,
   epsilon |-> Scalar(epsilon), rho |-> Scalar(rho), g_acc |-> Scalar(Zero)]

\* return -lr / (self.epsilon + jnp.sqrt(self.g_acc)) * grads
RMSProp_return(s, r, grads) ==
  Returned(s, r,
           tMul(tDiv(tNeg(r.value), tAdd(s.epsilon, tSqrt(s.g_acc))), grads),
           NoLocals)

\* self.g_acc = self.rho * self.g_acc + (1 - self.rho) * grads ** 2
RMSProp_g_acc(s, r, grads) ==
  IF grads = None THEN Raised(s, r)
  ELSE RMSProp_return(
         [s EXCEPT !.g_acc =
            tAdd(tMul(s.rho, s.g_acc),
                 tMul(tSub(Scalar(One), s.rho), tSquare(grads)))],
         r, grads)

RMSProp_update(self, grads) ==
  RMSProp_g_acc(Optimizer_update(self),
                return_lr(self.learning_rate, self.step), grads)

(***************************************************************************)
(* class Adam                                                              *)
(***************************************************************************)
Adam_init(learning_rate, epsilon, beta1, beta2) ==
  [step |-> Optimizer_init.step, learning_rate |-> learning_rate,
   epsilon |-> Scalar(epsilon), beta1 |-> Scalar(beta1), beta2 |-> Scalar(beta2),
   m |-> Scalar(Zero), v |-> Scalar(Zero),
   beta1_div |-> Scalar(One), beta2_div |-> Scalar(One)]

\* return -lr / (self.epsilon + jnp.sqrt(v_hat)) * m_hat
Adam_return(s, r, m_hat, v_hat) ==
  Returned(s, r,
           tMul(tDiv(tNeg(r.value), tAdd(s.epsilon, tSqrt(v_hat))), m_hat),
           [m_hat |-> m_hat, v_hat |-> v_hat])

\* Mutation of Adam_hat: no bias correction.
Adam_hat_uncorrected(s, r) == Adam_return(s, r, s.m, s.v)

\* m_hat = self.m / (1 - self.beta1_div); v_hat = self.v / (1 - self.beta2_div)
Adam_hat(s, r) ==
  Adam_return(s, r,
              tDiv(s.m, tSub(Scalar(One), s.beta1_div)),
              tDiv(s.v, tSub(Scalar(One), s.beta2_div)))

\* self.v = self.beta2 * self.v + (1 - self.beta2) * grads ** 2
Adam_v(s, r, grads) ==
  Adam_hat([s EXCEPT !.v =
              tAdd(tMul(s.beta2, s.v),
                   tMul(tSub(Scalar(One), s.beta2), tSquare(grads)))], r)

\* self.m = self.beta1 * self.m + (1 - self.beta1) * grads
Adam_m(s, r, grads) ==
  IF grads = None THEN Raised(s, r)
  ELSE Adam_v([s EXCEPT !.m =
                 tAdd(tMul(s.beta1, s.m),
                      tMul(tSub(Scalar(One), s.beta1), grads))], r, grads)

\* Mutation of Adam_div: the decay rates are assigned, not multiplied in.
Adam_div_assign(s, r, grads) ==
  Adam_m([s EXCEPT !.beta1_div = s.beta1, !.beta2_div = s.beta2], r, grads)

\* Mutation of Adam_div: the products are advanced only once the gradient
\* has been used, so a None gradient leaves them as they were.
Adam_div_late(s, r, grads) ==
  IF grads = None THEN Raised(s, r)
  ELSE Adam_m([s EXCEPT !.beta1_div = tMul(@, s.beta1),
                        !.beta2_div = tMul(@, s.beta2)], r, grads)

\* self.beta1_div *= self.beta1; self.beta2_div *= self.beta2
Adam_div(s, r, grads) ==
  Adam_m([s EXCEPT !.beta1_div = tMul(@, s.beta1),
                   !.beta2_div = tMul(@, s.beta2)], r, grads)

Adam_update(self, grads) ==
  Adam_div(Optimizer_update(self),
           return_lr(self.learning_rate, self.step), grads)

(***************************************************************************)
(* class AdaBelief (the local s_hat is reported in the v_hat slot)         *)
(***************************************************************************)
AdaBelief_init(learning_rate, epsilon, beta1, beta2) ==
  [step |-> Optimizer_init.step, learning_rate |-> learning_rate,
   epsilon |-> Scalar(epsilon), beta1 |-> Scalar(beta1), beta2 |-> Scalar(beta2),
   m |-> Scalar(Zero), s |-> Scalar(Zero),
   beta1_div |-> Scalar(One), beta2_div |-> Scalar(One)]

\* return -lr * m_hat / (jnp.sqrt(s_hat) + self.epsilon)
AdaBelief_return(s, r, m_hat, s_hat) ==
  Returned(s, r,
           tDiv(tMul(tNeg(r.value), m_hat), tAdd(tSqrt(s_hat), s.epsilon)),
           [m_hat |-> m_hat, v_hat |-> s_hat])

\* m_hat = self.m / (1 - self.beta1_div); s_hat = self.s / (1 - self.beta2_div)
AdaBelief_hat(s, r) ==
  AdaBelief_return(s, r,
                   tDiv(s.m, tSub(Scalar(One), s.beta1_div)),
                   tDiv(s.s, tSub(Scalar(One), s.beta2_div)))

\* Mutation of AdaBelief_s: the squared gradient, not its squared deviation
\* from m, is averaged (as in Adam).
AdaBelief_s_uncentered(s, r, grads) ==
  AdaBelief_hat([s EXCEPT !.s =
                   tAdd(tAdd(tMul(s.beta2, s.s),
                             tMul(tSub(Scalar(One), s.beta2), tSquare(grads))),
                        s.epsilon)], r)

\* self.s = self.beta2 * self.s + (1 - self.beta2) * (grads - self.m) ** 2
\*          + self.epsilon
AdaBelief_s(s, r, grads) ==
  AdaBelief_hat([s EXCEPT !.s =
                   tAdd(tAdd(tMul(s.beta2, s.s),
                             tMul(tSub(Scalar(One), s.beta2),
                                  tSquare(tSub(grads, s.m)))),
                        s.epsilon)], r)

\* self.m = self.beta1 * self.m + (1 - self.beta1) * grads
AdaBelief_m(s, r, grads) ==
  IF grads = None THEN Raised(s, r)
  ELSE AdaBelief_s([s EXCEPT !.m =
                      tAdd(tMul(s.beta1, s.m),
                           tMul(tSub(Scalar(One), s.beta1), grads))], r, grads)

\* self.beta1_div *= self.beta1; self.beta2_div *= self.beta2
AdaBelief_div(s, r, grads) ==
  AdaBelief_m([s EXCEPT !.beta1_div = tMul(@, s.beta1),
                        !.beta2_div = tMul(@, s.beta2)], r, grads)

AdaBelief_update(self, grads) ==
  AdaBelief_div(Optimizer_update(self),
                return_lr(self.learning_rate, self.step), grads)

(***************************************************************************)
(* Method dispatch and Optimizer.__call__                                  *)
(***************************************************************************)
Kinds == {"SGD", "MomentumSGD", "NesterovMomentumSGD", "AdaGrad", "RMSProp",
          "Adam", "AdaBelief"}

\* self.update(grads), resolved on the class of self
update(kind, self, grads) ==
  CASE kind = "SGD" -> SGD_update(self, grads)
    [] kind = "MomentumSGD" -> MomentumSGD_update(self, grads)
    [] kind = "NesterovMomentumSGD" -> NesterovMomentumSGD_update(self, grads)
    [] kind = "AdaGrad" -> AdaGrad_update(self, grads)
    [] kind = "RMSProp" -> RMSProp_update(self, grads)
    [] kind = "Adam" -> Adam_update(self, grads)
    [] kind = "AdaBelief" -> AdaBelief_update(self, grads)

\* Mutation of Optimizer_call_return: the delta is returned, params not added.
Optimizer_call_return_delta(params, u) == u

\* return params + update_val (nothing is returned when update raised)
Optimizer_call_return(params, u) ==
  IF u.raised THEN u ELSE [u EXCEPT !.value = tAdd(params, u.value)]

\* update_val = self.update(grads)
Optimizer_call(kind, self, params, grads) ==
  Optimizer_call_return(params, update(kind, self, grads))

(***************************************************************************)
(* State: one instance of every variant (opt); the most recent call       *)
(* (last): its arguments, the instances as they were on entry (before) and *)
(* what it produced on each instance (out); and the caller's count of      *)
(* calls that returned (ok) and calls that raised (failed)                 *)
(***************************************************************************)
VARIABLES opt, last, calls

vars == << opt, last, calls >>

\* constructor arguments
LearningRates == {Fixed(Q(1, 10)), Schedule("decay"), Schedule("warmup")}

Momenta == {Zero, Q(1, 2)}

Epsilons == {Q(1, 4), Q(-1, 1)}

Rhos == {Q(1, 2)}

Betas == {<< Zero, Zero >>, << Q(1, 2), Q(3, 4) >>}

\* call arguments
Gradients == {<< Q(1, 1), Q(-2, 1) >>, << Zero, Q(3, 1) >>, << PosInf, Q(1, 1) >>}

Parameters == {<< Q(1, 1), Q(-1, 2) >>}

Construct(kind, learning_rate, momentum, epsilon, rho, beta1, beta2) ==
  CASE kind = "SGD" -> SGD_init(learning_rate)
    [] kind = "MomentumSGD" -> MomentumSGD_init(learning_rate, momentum)
    [] kind = "NesterovMomentumSGD" -> NesterovMomentumSGD_init(learning_rate, momentum)
    [] kind = "AdaGrad" -> AdaGrad_init(learning_rate, epsilon)
    [] kind = "RMSProp" -> RMSProp_init(learning_rate, epsilon, rho)
    [] kind = "Adam" -> Adam_init(learning_rate, epsilon, beta1, beta2)
    [] kind = "AdaBelief" -> AdaBelief_init(learning_rate, epsilon, beta1, beta2)

\* what the caller sees of a call's outcome
Observed(u) ==
  [raised |-> u.raised, value |-> u.value, lr |-> u.lr,
   called_with |-> u.called_with, locals |-> u.locals]

NoOutcome ==
  [raised |-> FALSE, value |-> None, lr |-> None, called_with |-> << >>,
   locals |-> NoLocals]

Init ==
  /\ \E learning_rate \in LearningRates, momentum \in Momenta,
        epsilon \in Epsilons, rho \in Rhos, beta \in Betas :
       opt = [k \in Kinds |->
                Construct(k, learning_rate, momentum, epsilon, rho,
                          beta[1], beta[2])]
  /\ last = [op |-> "init", params |-> None, grads |-> None, before |-> opt,
             out |-> [k \in Kinds |-> NoOutcome]]
  /\ calls = [ok |-> 0, failed |-> 0]

\* the caller's record of a call whose outcome on instance k is u[k]
Record(op, params, grads, u) ==
  /\ opt' = [k \in Kinds |-> u[k].self]
  /\ last' = [op |-> op, params |-> params, grads |-> grads, before |-> opt,
              out |-> [k \in Kinds |-> Observed(u[k])]]
  /\ calls' = IF \E k \in Kinds : u[k].raised
              THEN [calls EXCEPT !.failed = @ + 1]
              ELSE [calls EXCEPT !.ok = @ + 1]

\* optimizer.update(grads) on every instance
Update(grads) ==
  /\ calls.ok + calls.failed < MaxCalls
  /\ Record("update", None, grads,
            [k \in Kinds |-> update(k, opt[k], grads)])

\* optimizer(params, grads) on every instance
Call(params, grads) ==
  /\ calls.ok + calls.failed < MaxCalls
  /\ Record("call", params, grads,
            [k \in Kinds |-> Optimizer_call(k, opt[k], params, grads)])

Next ==
  \/ \E grads \in Gradients \cup {None} : Update(grads)
  \/ \E params \in Parameters, grads \in Gradients \cup {None} : Call(params, grads)

Spec == Init /\ [][Next]_vars

(***************************************************************************)
(* Vocabulary of the properties                                            *)
(***************************************************************************)
\* number of calls made so far, returned or raised
NCalls == calls.ok + calls.failed

\* the most recent call was update(grads) and returned a delta
UpdateReturned(st) == st.op = "update" /\ ~st.out["SGD"].raised

\* the most recent call raised
CallRaised(st) == st.op # "init" /\ st.out["SGD"].raised

\* x to the power n by repeated multiplication from 1
RECURSIVE fPow(_, _)
fPow(x, n) == IF n = 0 THEN One ELSE fMul(fPow(x, n - 1), x)

\* the plain normalized-gradient step -lr * g / (epsilon + |g|)
NormalizedStep(lr, epsilon, g) ==
  tDiv(tMul(tNeg(lr), g), tAdd(epsilon, tAbs(g)))

InUnitInterval(x) == fLeq(x, One) /\ x # One /\ fLeq(Zero, x) /\ x # Zero

ZeroBetas(self) == self.beta1 = Scalar(Zero) /\ self.beta2 = Scalar(Zero)

(***************************************************************************)
(* C1.  In every variant step starts at 0, every call raises it by exactly *)
(* 1, and as long as no call has raised, step equals the number of calls   *)
(* made, whatever the gradients were.                                      *)
(***************************************************************************)
C1_StepCountsCalls ==
  \A k \in Kinds :
    /\ NCalls = 0 => opt[k].step = 0
    /\ last.op # "init" => opt[k].step = last.before[k].step + 1
    /\ calls.failed = 0 => opt[k].step = calls.ok

C1_Witness ==
  /\ calls.ok = 3 /\ calls.failed = 0
  /\ \A k \in Kinds : opt[k].step = 3

(***************************************************************************)
(* C2.  Each call resolves the learning rate exactly once, from the step   *)
(* on entry: the k-th call on an instance invokes a schedule with k - 1    *)
(* and with nothing else, a scalar is used unchanged, and the resolved     *)
(* value is the one the call computes with (SGD returns -lr * g for it).   *)
(***************************************************************************)
C2_LrResolvedBeforeIncrement ==
  last.op # "init" =>
    \A k \in Kinds :
      LET lr == opt[k].learning_rate
          o  == last.out[k]
      IN  /\ lr.callable =>
               /\ o.called_with = << NCalls - 1 >>
               /\ o.lr = Scalar(ScheduleValue(lr.fn, NCalls - 1))
          /\ ~lr.callable =>
               /\ o.called_with = << >>
               /\ o.lr = Scalar(lr.scalar)
          /\ (k = "SGD" /\ UpdateReturned(last)) =>
               o.value = tMul(tNeg(o.lr), last.grads)

C2_Witness ==
  /\ NCalls = 2
  /\ opt["Adam"].learning_rate = Schedule("decay")
  /\ last.out["Adam"].called_with = << 1 >>
  /\ last.out["Adam"].lr = Scalar(Q(1, 20))
  /\ UpdateReturned(last)

\* the most recent call on instance k agrees with u, the outcome of update
CallAgreesWithUpdate(k, u) ==
  /\ opt[k] = u.self
  /\ opt[k].step = last.before[k].step + 1
  /\ last.out[k].raised = u.raised
  /\ ~u.raised => last.out[k].value = tAdd(last.params, u.value)

(***************************************************************************)
(* C3.  optimizer(params, grads) returns params + d, d being the delta     *)
(* update(grads) returns from the same state, and leaves the instance in   *)
(* the state that one update(grads) call leaves it in: step advanced by    *)
(* one, accumulators advanced once.                                        *)
(***************************************************************************)
C3_CallIsParamsPlusUpdate ==
  last.op = "call" =>
    \A k \in Kinds :
      CallAgreesWithUpdate(k, update(k, last.before[k], last.grads))

C3_Witness ==
  /\ last.op = "call" /\ ~last.out["Adam"].raised
  /\ NCalls = 2
  /\ opt["Adam"].step = 2
  /\ opt["Adam"].m # last.before["Adam"].m
  /\ tIsFin(last.out["Adam"].value)
  /\ last.out["Adam"].value # last.params

(***************************************************************************)
(* C4 as stated.  MomentumSGD built with momentum = 0 and SGD built with   *)
(* the same learning rate, fed the same gradients, return the same delta   *)
(* on every call, and that delta is -lr * g for the learning rate resolved *)
(* for the call, whatever the earlier gradients were.                      *)
(***************************************************************************)
C4_Original ==
  (opt["MomentumSGD"].momentum = Scalar(Zero) /\ UpdateReturned(last)) =>
    /\ last.out["MomentumSGD"].value = last.out["SGD"].value
    /\ last.out["SGD"].value = tMul(tNeg(last.out["SGD"].lr), last.grads)
    /\ last.out["MomentumSGD"].value =
         tMul(tNeg(last.out["MomentumSGD"].lr), last.grads)

(***************************************************************************)
(* C4 amended.  The same, for every call that finds MomentumSGD's velocity *)
(* finite on entry, that is, as long as no earlier lr * g was infinite or  *)
(* NaN.  (0 * velocity is NaN for a velocity that is not finite.)          *)
(***************************************************************************)
C4_MomentumZeroIsSGD ==
  ( /\ opt["MomentumSGD"].momentum = Scalar(Zero)
    /\ UpdateReturned(last)
    /\ tIsFin(last.before["MomentumSGD"].velocity) ) =>
    /\ last.out["MomentumSGD"].value = last.out["SGD"].value
    /\ last.out["SGD"].value = tMul(tNeg(last.out["SGD"].lr), last.grads)
    /\ last.out["MomentumSGD"].value =
         tMul(tNeg(last.out["MomentumSGD"].lr), last.grads)

C4_Witness ==
  /\ opt["MomentumSGD"].momentum = Scalar(Zero)
  /\ UpdateReturned(last)
  /\ NCalls = 3
  /\ last.before["MomentumSGD"].velocity # Scalar(Zero)
  /\ tIsFin(last.before["MomentumSGD"].velocity)
  /\ last.out["MomentumSGD"].value = last.out["SGD"].value
  /\ last.out["SGD"].value # last.before["MomentumSGD"].velocity

\* two successive update calls that returned, given the same gradient, on an
\* AdaGrad whose epsilon is non-negative and whose deltas are numbers
SameGradientAgain ==
  /\ UpdateReturned(last) /\ UpdateReturned(last')
  /\ last'.grads = last.grads
  /\ fLeq(Zero, opt["AdaGrad"].epsilon[1])
  /\ ~tHasNaN(last.out["AdaGrad"].value)
  /\ ~tHasNaN(last'.out["AdaGrad"].value)

(***************************************************************************)
(* C5 as stated.  AdaGrad: when update is called again with the same       *)
(* gradient, the magnitude of the delta is element-wise no larger than the *)
(* magnitude of the delta of the call before, with no condition on the     *)
(* learning rate.  (Stated for a non-negative epsilon and for deltas that  *)
(* are numbers, where a magnitude can be compared at all.)                 *)
(***************************************************************************)
C5_Original ==
  [][SameGradientAgain =>
       tLeq(tAbs(last'.out["AdaGrad"].value),
            tAbs(last.out["AdaGrad"].value))]_vars

(***************************************************************************)
(* C5 amended.  The same, provided the magnitude of the resolved learning  *)
(* rate did not grow from the earlier call to the later one (a fixed       *)
(* scalar, or a schedule that does not increase in magnitude).             *)
(***************************************************************************)
C5_AdaGradDeltaShrinks ==
  [][( /\ SameGradientAgain
       /\ tLeq(tAbs(last'.out["AdaGrad"].lr), tAbs(last.out["AdaGrad"].lr)) ) =>
       tLeq(tAbs(last'.out["AdaGrad"].value),
            tAbs(last.out["AdaGrad"].value))]_vars

\* the third of three calls with the same gradient, each delta strictly
\* smaller in magnitude than the one before in some coordinate
C5_Witness ==
  /\ NCalls = 3 /\ calls.failed = 0
  /\ UpdateReturned(last)
  /\ fLeq(Zero, opt["AdaGrad"].epsilon[1])
  /\ ~opt["AdaGrad"].learning_rate.callable
  /\ opt["AdaGrad"].g_acc = tMul(Scalar(Q(3, 1)), tSquare(last.grads))
  /\ tIsFin(last.out["AdaGrad"].value)
  /\ ~tLeq(tAbs(AdaGrad_update(AdaGrad_init(opt["AdaGrad"].learning_rate,
                                            opt["AdaGrad"].epsilon[1]),
                               last.grads).value),
           tAbs(last.out["AdaGrad"].value))

\* the most recent call found the moment estimates of instance k finite
FiniteOnEntry(k) ==
  /\ tIsFin(last.before[k].m)
  /\ tIsFin(IF k = "Adam" THEN last.before[k].v ELSE last.before[k].s)

(***************************************************************************)
(* C6 as stated.  Adam and AdaBelief built with beta1 = beta2 = 0: after   *)
(* every update call beta1_div = beta2_div = 0, m_hat is the call's        *)
(* gradient, and the delta is the plain normalized-gradient step           *)
(* -lr * g / (epsilon + |g|).  (Stated for a non-negative epsilon and for   *)
(* calls that find the moment estimates finite on entry and are given a    *)
(* finite gradient.)                                                       *)
(***************************************************************************)
C6_Original ==
  \A k \in {"Adam", "AdaBelief"} :
    ( /\ ZeroBetas(opt[k]) /\ UpdateReturned(last)
      /\ fLeq(Zero, opt[k].epsilon[1])
      /\ FiniteOnEntry(k) /\ tIsFin(last.grads) ) =>
      /\ opt[k].beta1_div = Scalar(Zero)
      /\ opt[k].beta2_div = Scalar(Zero)
      /\ last.out[k].locals.m_hat = last.grads
      /\ last.out[k].value =
           NormalizedStep(last.out[k].lr, opt[k].epsilon, last.grads)

(***************************************************************************)
(* C6 amended.  With beta1 = beta2 = 0, after every call beta1_div =       *)
(* beta2_div = 0, and on every update call that finds the moment estimates *)
(* finite on entry (no earlier gradient was infinite or NaN) m_hat is the  *)
(* call's gradient.  Adam's delta is then the normalized-gradient step     *)
(* -lr * g / (epsilon + |g|).  AdaBelief's is not: there s = epsilon, and  *)
(* for a finite gradient its delta is -lr * g / (sqrt(epsilon) + epsilon). *)
(***************************************************************************)
C6_ZeroBetas ==
  \A k \in {"Adam", "AdaBelief"} :
    (ZeroBetas(opt[k]) /\ last.op # "init") =>
      /\ opt[k].beta1_div = Scalar(Zero)
      /\ opt[k].beta2_div = Scalar(Zero)
      /\ (UpdateReturned(last) /\ FiniteOnEntry(k)) =>
           /\ last.out[k].locals.m_hat = last.grads
           /\ k = "Adam" =>
                last.out[k].value =
                  NormalizedStep(last.out[k].lr, opt[k].epsilon, last.grads)
           /\ (k = "AdaBelief" /\ tIsFin(last.grads)) =>
                \* s is epsilon in every coordinate of the gradient
                /\ opt[k].s = tAdd(tMul(Scalar(Zero), last.grads), opt[k].epsilon)
                /\ last.out[k].value =
                     tDiv(tMul(tNeg(last.out[k].lr), last.grads),
                          tAdd(tSqrt(opt[k].epsilon), opt[k].epsilon))

C6_Witness ==
  /\ ZeroBetas(opt["Adam"]) /\ ZeroBetas(opt["AdaBelief"])
  /\ UpdateReturned(last) /\ NCalls = 3
  /\ FiniteOnEntry("Adam") /\ FiniteOnEntry("AdaBelief")
  /\ tIsFin(last.grads)
  /\ last.grads # last.before["Adam"].m
  /\ tIsFin(last.out["Adam"].value) /\ tIsFin(last.out["AdaBelief"].value)
  /\ last.out["Adam"].value # last.out["AdaBelief"].value

(***************************************************************************)
(* C7.  First update call of a freshly constructed Adam with beta1, beta2  *)
(* in (0,1): the bias correction cancels the zero initialisation, m_hat =  *)
(* g and v_hat = g^2 element-wise, and the delta is                        *)
(* -lr * g / (epsilon + |g|) whatever beta1 and beta2 are.                 *)
(***************************************************************************)
C7_AdamFirstCall ==
  ( /\ NCalls = 1 /\ UpdateReturned(last)
    /\ InUnitInterval(opt["Adam"].beta1[1])
    /\ InUnitInterval(opt["Adam"].beta2[1]) ) =>
    /\ last.out["Adam"].locals.m_hat = last.grads
    /\ last.out["Adam"].locals.v_hat = tSquare(last.grads)
    /\ last.out["Adam"].value =
         NormalizedStep(last.out["Adam"].lr, opt["Adam"].epsilon, last.grads)

C7_Witness ==
  /\ NCalls = 1 /\ UpdateReturned(last)
  /\ opt["Adam"].beta1 = Scalar(Q(1, 2)) /\ opt["Adam"].beta2 = Scalar(Q(3, 4))
  /\ opt["Adam"].m = tMul(Scalar(Q(1, 2)), last.grads)
  /\ opt["Adam"].m # last.grads
  /\ last.out["Adam"].locals.m_hat = last.grads
  /\ tIsFin(last.out["Adam"].value)

(***************************************************************************)
(* C8.  In Adam and AdaBelief, initially and after every call,             *)
(* beta1_div = beta1^step and beta2_div = beta2^step for the incremented   *)
(* step.                                                                   *)
(***************************************************************************)
C8_BetaDivIsPower ==
  \A k \in {"Adam", "AdaBelief"} :
    /\ opt[k].beta1_div = Scalar(fPow(opt[k].beta1[1], opt[k].step))
    /\ opt[k].beta2_div = Scalar(fPow(opt[k].beta2[1], opt[k].step))

C8_Witness ==
  /\ opt["Adam"].step = 3 /\ opt["AdaBelief"].step = 3
  /\ opt["Adam"].beta1_div = Scalar(Q(1, 8))
  /\ opt["AdaBelief"].beta2_div = Scalar(Q(27, 64))

(***************************************************************************)
(* C9.  NesterovMomentumSGD and MomentumSGD built with the same learning   *)
(* rate and momentum and fed the same gradients hold the same velocity     *)
(* after every call, and Nesterov's delta is momentum * (the delta         *)
(* MomentumSGD returned on that call) - lr * g.                            *)
(***************************************************************************)
C9_NesterovFollowsMomentum ==
  /\ opt["NesterovMomentumSGD"].velocity = opt["MomentumSGD"].velocity
  /\ UpdateReturned(last) =>
       /\ last.out["MomentumSGD"].value = opt["MomentumSGD"].velocity
       /\ last.out["NesterovMomentumSGD"].value =
            tSub(tMul(opt["NesterovMomentumSGD"].momentum,
                      last.out["MomentumSGD"].value),
                 tMul(last.out["NesterovMomentumSGD"].lr, last.grads))

C9_Witness ==
  /\ UpdateReturned(last) /\ NCalls = 2
  /\ opt["MomentumSGD"].momentum = Scalar(Q(1, 2))
  /\ tIsFin(opt["MomentumSGD"].velocity)
  /\ last.before["MomentumSGD"].velocity # Scalar(Zero)
  /\ opt["NesterovMomentumSGD"].velocity = opt["MomentumSGD"].velocity
  /\ last.out["NesterovMomentumSGD"].value # opt["NesterovMomentumSGD"].velocity

\* the accumulators of an instance of variant k
Accumulators(k, self) ==
  CASE k = "SGD" -> << >>
    [] k \in {"MomentumSGD", "NesterovMomentumSGD"} -> << self.velocity >>
    [] k \in {"AdaGrad", "RMSProp"} -> << self.g_acc >>
    [] k = "Adam" -> << self.m, self.v >>
    [] k = "AdaBelief" -> << self.m, self.s >>

(***************************************************************************)
(* C10.  A call whose gradient is None raises and returns nothing in every *)
(* variant, and is no no-op: velocity, g_acc, m, v and s keep their values *)
(* but step has been incremented, and in Adam and AdaBelief beta1_div and  *)
(* beta2_div have been multiplied by beta1 and beta2.  After N calls that  *)
(* returned and F calls that raised, step = N + F.                         *)
(***************************************************************************)
C10_NoneGradientRaises ==
  \A k \in Kinds :
    /\ opt[k].step = calls.ok + calls.failed
    /\ (last.op # "init" /\ last.grads = None) =>
         /\ last.out[k].raised
         /\ last.out[k].value = None
         /\ opt[k].step = last.before[k].step + 1
         /\ Accumulators(k, opt[k]) = Accumulators(k, last.before[k])
         /\ k \in {"Adam", "AdaBelief"} =>
              /\ opt[k].beta1_div = tMul(last.before[k].beta1_div, opt[k].beta1)
              /\ opt[k].beta2_div = tMul(last.before[k].beta2_div, opt[k].beta2)
    /\ (last.op # "init" /\ last.grads # None) => ~last.out[k].raised

C10_Witness ==
  /\ CallRaised(last)
  /\ calls.ok = 2 /\ calls.failed = 1
  /\ opt["Adam"].step = 3
  /\ opt["Adam"].beta1_div = Scalar(Q(1, 8))
  /\ last.before["Adam"].beta1_div = Scalar(Q(1, 4))
  /\ opt["Adam"].m = last.before["Adam"].m
  /\ opt["Adam"].m # Scalar(Zero)

====
